---- MODULE Spec2Model ----
(***************************************************************************)
(* s3stat: S3Stat.run() downloads the log objects of one bucket listing    *)
(* with a pool of DownloadLogThread workers, a ConcatThread appends what   *)
(* they fetched to one temporary file, goaccess is run on that file and    *)
(* its output is handed to process_results / process_error.                *)
(*                                                                         *)
(* One S3Stat object, one call of run().  The main thread, the download    *)
(* workers and the writer thread are interleaved at the granularity of     *)
(* their queue operations, fetches and file writes.                        *)
(***************************************************************************)
EXTENDS Integers, Sequences, FiniteSets, Bags, TLC

\* ---------------------------------------------------------------- bounds
\* Most objects the bucket listing yields in one run.
MaxObjects == 2
\* Longest analyzer output, in characters.
MaxOutLen == 2
\* Calls of run() on one S3Stat object that are followed.
MaxRuns == 2

\* ------------------------------------------------------------- constants
\* S3Stat._num_threads
_num_threads == 10
\* First byte of a gzip member (0x1f).
GzMagic == 31

\* Stored object bodies the bucket may hold: an ordinary byte, an empty gzip
\* member, a gzip member with one byte of payload.
Bodies == {<<65>>, <<GzMagic>>, <<GzMagic, 65>>}

\* Dates run reports are asked for.
Dates == {[y |-> 2014, m |-> 5, d |-> 7], [y |-> 2014, m |-> 7, d |-> 5]}

\* The input_prefix argument of the constructor: "l/".
LogPath == <<"l", "/">>

DecimalDigits == <<"0", "1", "2", "3", "4", "5", "6", "7", "8", "9">>

\* n in decimal, zero-padded to w characters (%Y, %m, %d of strftime).
RECURSIVE Pad(_, _)
Pad(n, w) ==
    IF w = 0 THEN <<>> ELSE Append(Pad(n \div 10, w - 1), DecimalDigits[(n % 10) + 1])

\* date_filter.strftime("%Y-%m-%d")
Strftime(date) ==
    Pad(date.y, 4) \o <<"-">> \o Pad(date.m, 2) \o <<"-">> \o Pad(date.d, 2)

\* Variant: the date is left out of the prefix.
InputPrefix_NoDate(prefix, date) == prefix

\* self.input_prefix = input_prefix + date_filter.strftime("%Y-%m-%d")
InputPrefix(prefix, date) == prefix \o Strftime(date)

\* Keys the bucket may hold at position i of its (ordered) listing: a log of
\* 2014-05-07 right under "l/", and a key under "l/" that carries that day
\* further down its path.
BucketKeys(i) ==
    LET n == <<DecimalDigits[i + 1]>> IN
    { <<"l", "/", "2", "0", "1", "4", "-", "0", "5", "-", "0", "7", "-">> \o n,
      <<"l", "/", "x", "/", "2", "0", "1", "4", "-", "0", "5", "-", "0", "7", "-">> \o n }

\* A key is under a prefix: what mybucket.list(prefix=...) selects by.
StartsWith(key, prefix) ==
    Len(key) >= Len(prefix) /\ SubSeq(key, 1, Len(prefix)) = prefix

\* Characters the analyzer may print.
OutChars == {"0", "1", "x"}
Outputs == UNION {[1..n -> OutChars] : n \in 0..MaxOutLen}

\* Values run(format) is called with: None, the empty string, and the three
\* representations goaccess knows.
Formats == {"None", "", "json", "html", "csv"}

\* if format:
Truthy(fmt) == fmt \notin {"None", ""}

\* Values a handler (process_results, process_error) may return.
HandlerReturns == {"None", "sentinel"}

\* Python values of out: None, a str, a decoded JSON value.
NoneOut == [kind |-> "None", val |-> <<>>]
Str(s) == [kind |-> "str", val |-> s]
Decoded(v) == [kind |-> "json", val |-> v]

NoItem == [idx |-> 0, key |-> <<>>, body |-> <<>>]
NoData == <<>>

VARIABLES
    is_cloudfront,      \* S3Stat.is_cloudfront
    date_filter,        \* S3Stat.date_filter
    input_prefix,       \* S3Stat.input_prefix
    runs,               \* calls of run() on this object so far
    abandoned,          \* threads of earlier runs, still blocked in get()
    format,             \* the argument of run()
    pc,                 \* position of the main thread inside run()
    configfile,         \* self.configfile
    tempLog,            \* the NamedTemporaryFile of the with block
    listing,            \* the items mybucket.list() has yielded so far
    skipped,            \* history: keys of the bucket the listing left out
    list_failed,        \* history: the listing raised
    log_file_queue,     \* Queue of items to download
    log_string_queue,   \* Queue of downloaded data
    workers,            \* bag of DownloadLogThread states
    writer,             \* the ConcatThread
    failed,             \* history: idx of the items whose fetch raised
    arrivals,           \* history: the data blocks in the order of out_queue.put
    writes,             \* history: the data blocks in the order of outfile.write
    errors_logged,      \* number of logger.error records
    server,             \* the goaccess subprocess
    out,                \* out of server.communicate(), then of json.loads
    decode_attempts,    \* calls of json.loads
    results_calls,      \* the calls of process_results: argument and outcome
    error_calls,        \* the calls of process_error: arguments and outcome
    retval,             \* what run() returned
    exc                 \* the exception run() raised

vars == <<is_cloudfront, date_filter, input_prefix, runs, abandoned, format,
          pc, configfile, tempLog, listing, skipped, list_failed,
          log_file_queue, log_string_queue, workers, writer, failed, arrivals,
          writes, errors_logged, server, out, decode_attempts, results_calls,
          error_calls, retval, exc>>

\* What outlives one call of run().
selfVars == <<is_cloudfront, date_filter, input_prefix, runs, abandoned>>
listVars == <<listing, skipped, list_failed>>
threadVars == <<log_file_queue, log_string_queue, workers, writer, failed,
                arrivals, writes, errors_logged>>
resultVars == <<server, out, decode_attempts, results_calls, error_calls>>

\* ------------------------------------------------------------ Queue.Queue
EmptyQueue == [items |-> <<>>, unfinished_tasks |-> 0]

\* Queue.put
QueuePut(q, x) ==
    [items |-> Append(q.items, x), unfinished_tasks |-> q.unfinished_tasks + 1]

\* Queue.get blocks while the queue is empty
QueueCanGet(q) == q.items # <<>>

\* Variant: get that hands out the newest item.
QueueFront_Newest(q) == q.items[Len(q.items)]

\* Queue.get hands out the oldest item
QueueFront(q) == Head(q.items)

QueueAfterGet(q) == [q EXCEPT !.items = Tail(q.items)]

\* Queue.task_done
QueueTaskDone(q) == [q EXCEPT !.unfinished_tasks = q.unfinished_tasks - 1]

\* Variant: join that does not wait for the acknowledgements.
QueueJoined_NoWait(q) == q.unfinished_tasks >= 0

\* Queue.join returns once every item put has been acknowledged
QueueJoined(q) == q.unfinished_tasks = 0

\* ------------------------------------------------------------------ gzip
\* What gzip.GzipFile(...).read() accepts: a body starting with the magic.
IsGzip(body) == Len(body) >= 1 /\ body[1] = GzMagic

\* The decompressed payload of a gzip body.
Gunzip(body) == Tail(body)

\* DownloadLogThread.read_log can decode the body it fetched
CanReadLog(body) == is_cloudfront => IsGzip(body)

\* DownloadLogThread.read_log
ReadLog(body) == IF is_cloudfront THEN Gunzip(body) ELSE body

\* ------------------------------------------------------------ json.loads
Digit(c) == IF c = "0" THEN 0 ELSE 1

\* A JSON number: digits only, no leading zero.
IsJson(s) ==
    /\ Len(s) >= 1
    /\ \A i \in 1..Len(s) : s[i] \in {"0", "1"}
    /\ (Len(s) > 1 => s[1] # "0")

RECURSIVE DecValue(_)
DecValue(s) ==
    IF s = <<>> THEN 0
    ELSE 10 * DecValue(SubSeq(s, 1, Len(s) - 1)) + Digit(s[Len(s)])

\* json.loads(out) of a decodable out
JsonLoads(s) == DecValue(s)

\* ------------------------------------------------------------- the files
NoFile == [state |-> "none", buffer |-> <<>>, disk |-> <<>>]

\* tempfile.NamedTemporaryFile()
NewTempFile == [state |-> "open", buffer |-> <<>>, disk |-> <<>>]

\* file.write: into the buffer of the file object
FileWrite(f, data) == [f EXCEPT !.buffer = f.buffer \o data]

\* file.flush
FileFlush(f) == [f EXCEPT !.disk = f.disk \o f.buffer, !.buffer = <<>>]

\* file.close of a NamedTemporaryFile: the file is deleted
FileClose(f) == [state |-> "closed", buffer |-> <<>>, disk |-> <<>>]

\* The profile _create_goconfig writes.
GoConfig ==
    IF is_cloudfront
    THEN <<"color_scheme 0", "log_format CLOUDFRONT">>
    ELSE <<"color_scheme 0", "log_format AWSS3">>

\* --------------------------------------------------------------- threads
Idle == [pc |-> "get", item |-> NoItem, data |-> NoData]

Move(from, to) == (workers (-) SetToBag({from})) (+) SetToBag({to})

WorkerAt(p) == {w \in BagToSet(workers) : w.pc = p}

\* Exit statuses of goaccess: success and failure.
ExitStatuses == {0, 1}

NoServer ==
    [launches |-> 0, command |-> <<>>, captured |-> FALSE, input |-> <<>>,
     stdout |-> <<>>, returncode |-> 0]

Init ==
    /\ is_cloudfront \in BOOLEAN
    /\ date_filter \in Dates
    /\ input_prefix = InputPrefix(LogPath, date_filter)
    /\ runs = 0
    /\ abandoned = 0
    /\ format = "None"
    /\ pc = "idle"
    /\ configfile = NoFile
    /\ tempLog = NoFile
    /\ listing = <<>>
    /\ skipped = {}
    /\ list_failed = FALSE
    /\ log_file_queue = EmptyQueue
    /\ log_string_queue = EmptyQueue
    /\ workers = EmptyBag
    /\ writer = [pc |-> "none", data |-> NoData]
    /\ failed = {}
    /\ arrivals = <<>>
    /\ writes = <<>>
    /\ errors_logged = 0
    /\ server = NoServer
    /\ out = NoneOut
    /\ decode_attempts = 0
    /\ results_calls = <<>>
    /\ error_calls = <<>>
    /\ retval = "unset"
    /\ exc = "none"

\* ------------------------------------------------------- the main thread
\* An exception leaves run(): the with block closes tempLog on the way out
\* (self.configfile is not touched).
Raise(e) ==
    /\ pc' = "raised"
    /\ exc' = e
    /\ tempLog' = FileClose(tempLog)

\* processor.run(fmt)
Run ==
    /\ pc = "idle"
    /\ \E fmt \in Formats : format' = fmt
    /\ runs' = runs + 1
    /\ pc' = "create_goconfig"
    /\ UNCHANGED <<is_cloudfront, date_filter, input_prefix, abandoned,
                   configfile, tempLog, listVars, threadVars, resultVars,
                   retval, exc>>

\* self._create_goconfig(), then the with statement opens tempLog
CreateGoconfig ==
    /\ pc = "create_goconfig"
    /\ configfile' = FileFlush(FileWrite(NewTempFile, GoConfig))
    /\ tempLog' = NewTempFile
    /\ pc' = "get_bucket"
    /\ UNCHANGED <<selfVars, format, listVars, threadVars, resultVars,
                   retval, exc>>

\* conn = S3Connection(...); mybucket = conn.get_bucket(...); the two queues
GetBucket ==
    /\ pc = "get_bucket"
    /\ log_file_queue' = EmptyQueue
    /\ log_string_queue' = EmptyQueue
    /\ pc' = "spawn"
    /\ UNCHANGED <<selfVars, format, configfile, tempLog, listVars, workers,
                   writer, failed, arrivals, writes, errors_logged,
                   resultVars, retval, exc>>

\* get_bucket raises (outside the try of download_logs)
GetBucketFails ==
    /\ pc = "get_bucket"
    /\ Raise("S3ResponseError")
    /\ UNCHANGED <<selfVars, format, configfile, listVars, threadVars,
                   resultVars, retval>>

\* the _num_threads DownloadLogThread and the ConcatThread are started
SpawnThreads ==
    /\ pc = "spawn"
    /\ workers' = [w \in {Idle} |-> _num_threads]
    /\ writer' = [pc |-> "get", data |-> NoData]
    /\ pc' = "list"
    /\ UNCHANGED <<selfVars, format, configfile, tempLog, listVars,
                   log_file_queue, log_string_queue, failed, arrivals,
                   writes, errors_logged, resultVars, retval, exc>>

\* Objects of the bucket the listing has gone past.
Walked == Len(listing) + Cardinality(skipped)

\* for item in mybucket.list(prefix=self.input_prefix):
\*     log_file_queue.put(item)
\* The next object of the bucket is under the prefix and is yielded.
ListNext ==
    /\ pc = "list"
    /\ Walked < MaxObjects
    /\ \E key \in BucketKeys(Walked + 1), body \in Bodies :
         LET item == [idx |-> Len(listing) + 1, key |-> key, body |-> body] IN
           /\ StartsWith(key, input_prefix)
           /\ listing' = Append(listing, item)
           /\ log_file_queue' = QueuePut(log_file_queue, item)
    /\ UNCHANGED <<selfVars, format, pc, configfile, tempLog, skipped,
                   list_failed, log_string_queue, workers, writer, failed,
                   arrivals, writes, errors_logged, resultVars, retval, exc>>

\* The next object of the bucket is not under the prefix: list() leaves it out.
ListSkip ==
    /\ pc = "list"
    /\ Walked < MaxObjects
    /\ \E key \in BucketKeys(Walked + 1) :
         /\ ~StartsWith(key, input_prefix)
         /\ skipped' = skipped \cup {key}
    /\ UNCHANGED <<selfVars, format, pc, configfile, tempLog, listing,
                   list_failed, threadVars, resultVars, retval, exc>>

\* the listing is exhausted
ListDone ==
    /\ pc = "list"
    /\ pc' = "join_files"
    /\ UNCHANGED <<selfVars, format, configfile, tempLog, listVars,
                   threadVars, resultVars, retval, exc>>

\* Variant: the error of the listing is swallowed and the run goes on with
\* what was listed.
ListFails_Swallowed ==
    /\ pc = "list"
    /\ list_failed' = TRUE
    /\ pc' = "join_files"
    /\ UNCHANGED <<selfVars, format, configfile, tempLog, listing, skipped,
                   threadVars, resultVars, retval, exc>>

\* the lazily consumed listing raises
ListFails ==
    /\ pc = "list"
    /\ list_failed' = TRUE
    /\ Raise("S3ResponseError")
    /\ UNCHANGED <<selfVars, format, configfile, listing, skipped, threadVars,
                   resultVars, retval>>

\* log_file_queue.join()
JoinFiles ==
    /\ pc = "join_files"
    /\ QueueJoined(log_file_queue)
    /\ pc' = "join_strings"
    /\ UNCHANGED <<selfVars, format, configfile, tempLog, listVars,
                   threadVars, resultVars, retval, exc>>

\* Variant: the finally clause stops the eleven threads before it returns.
JoinStrings_StopsThreads ==
    /\ pc = "join_strings"
    /\ QueueJoined(log_string_queue)
    /\ workers' = EmptyBag
    /\ writer' = [pc |-> "dead", data |-> NoData]
    /\ pc' = "flush"
    /\ UNCHANGED <<selfVars, format, configfile, tempLog, listVars,
                   log_file_queue, log_string_queue, failed, arrivals,
                   writes, errors_logged, resultVars, retval, exc>>

\* log_string_queue.join(), the finally clause, return to run()
JoinStrings ==
    /\ pc = "join_strings"
    /\ QueueJoined(log_string_queue)
    /\ pc' = "flush"
    /\ UNCHANGED <<selfVars, format, configfile, tempLog, listVars,
                   threadVars, resultVars, retval, exc>>

\* Variant: the flush before the analyzer is left out.
Flush_Skipped ==
    /\ pc = "flush"
    /\ pc' = "popen"
    /\ UNCHANGED <<selfVars, format, configfile, tempLog, listVars, threadVars,
                   resultVars, retval, exc>>

\* tempLog.flush()
Flush ==
    /\ pc = "flush"
    /\ tempLog' = FileFlush(tempLog)
    /\ pc' = "popen"
    /\ UNCHANGED <<selfVars, format, configfile, listVars, threadVars,
                   resultVars, retval, exc>>

\* command = ["goaccess", "-f", tempLog.name, "-p", self.configfile.name]
\* if format: command += ["-o", format]
Command(fmt) ==
    <<"goaccess", "-f", "tempLog.name", "-p", "configfile.name">>
        \o (IF Truthy(fmt) THEN <<"-o", fmt>> ELSE <<>>)

\* Variant: stdout is always piped.
Captured_Always(fmt) == TRUE

\* stdout=subprocess.PIPE if format else None
Captured(fmt) == Truthy(fmt)

\* server = subprocess.Popen(command, stdout=...): goaccess reads the file
Popen ==
    /\ pc = "popen"
    /\ server' = [launches |-> server.launches + 1,
                  command |-> Command(format),
                  captured |-> Captured(format),
                  input |-> tempLog.disk,
                  stdout |-> <<>>,
                  returncode |-> 0]
    /\ pc' = "communicate"
    /\ UNCHANGED <<selfVars, format, configfile, tempLog, listVars,
                   threadVars, out, decode_attempts, results_calls,
                   error_calls, retval, exc>>

\* Popen raises (goaccess cannot be started)
PopenFails ==
    /\ pc = "popen"
    /\ Raise("OSError")
    /\ UNCHANGED <<selfVars, format, configfile, listVars, threadVars,
                   resultVars, retval>>

\* out, err = server.communicate(); the with block ends
Communicate ==
    /\ pc = "communicate"
    /\ \E o \in Outputs, rc \in ExitStatuses :
         /\ server' = [server EXCEPT !.stdout = o, !.returncode = rc]
         /\ out' = IF server.captured THEN Str(o) ELSE NoneOut
    /\ tempLog' = FileClose(tempLog)
    /\ pc' = "dispatch"
    /\ UNCHANGED <<selfVars, format, configfile, listVars, threadVars,
                   decode_attempts, results_calls, error_calls, retval, exc>>

\* run() returns v
Return(v) ==
    /\ pc' = "returned"
    /\ retval' = v

\* if format: is false: return True
DispatchNone ==
    /\ pc = "dispatch"
    /\ ~Truthy(format)
    /\ Return("True")
    /\ UNCHANGED <<selfVars, format, configfile, tempLog, listVars,
                   threadVars, resultVars, exc>>

\* format == "json": out = json.loads(out)
JsonDecode ==
    /\ pc = "dispatch"
    /\ Truthy(format) /\ format = "json"
    /\ IsJson(out.val)
    /\ decode_attempts' = decode_attempts + 1
    /\ out' = Decoded(JsonLoads(out.val))
    /\ pc' = "process_results"
    /\ UNCHANGED <<selfVars, format, configfile, tempLog, listVars,
                   threadVars, server, results_calls, error_calls, retval,
                   exc>>

\* Variant: the ValueError of json.loads is swallowed and the raw output is
\* passed on to process_results.
JsonDecodeFails_Swallowed ==
    /\ pc = "dispatch"
    /\ Truthy(format) /\ format = "json"
    /\ ~IsJson(out.val)
    /\ decode_attempts' = decode_attempts + 1
    /\ pc' = "process_results"
    /\ UNCHANGED <<selfVars, format, configfile, tempLog, listVars,
                   threadVars, server, out, results_calls, error_calls,
                   retval, exc>>

\* format == "json": json.loads(out) raises ValueError
JsonDecodeFails ==
    /\ pc = "dispatch"
    /\ Truthy(format) /\ format = "json"
    /\ ~IsJson(out.val)
    /\ decode_attempts' = decode_attempts + 1
    /\ pc' = "process_error"
    /\ UNCHANGED <<selfVars, format, configfile, tempLog, listVars,
                   threadVars, server, out, results_calls, error_calls,
                   retval, exc>>

\* format is html or csv: straight to self.process_results(out)
DispatchRaw ==
    /\ pc = "dispatch"
    /\ Truthy(format) /\ format # "json"
    /\ pc' = "process_results"
    /\ UNCHANGED <<selfVars, format, configfile, tempLog, listVars,
                   threadVars, resultVars, retval, exc>>

\* Variant: run() returns what process_results returned.
ProcessResults_ReturnsHandlerValue ==
    /\ pc = "process_results"
    /\ \E r \in HandlerReturns :
         /\ results_calls' = Append(results_calls, [arg |-> out, result |-> r])
         /\ Return(r)
    /\ UNCHANGED <<selfVars, format, configfile, tempLog, listVars,
                   threadVars, server, out, decode_attempts, error_calls,
                   exc>>

\* self.process_results(out) returns r, which run() drops; return True
ProcessResults ==
    /\ pc = "process_results"
    /\ \E r \in HandlerReturns :
         results_calls' = Append(results_calls, [arg |-> out, result |-> r])
    /\ Return("True")
    /\ UNCHANGED <<selfVars, format, configfile, tempLog, listVars,
                   threadVars, server, out, decode_attempts, error_calls,
                   exc>>

\* self.process_results(out) raises
ProcessResultsRaises ==
    /\ pc = "process_results"
    /\ results_calls' = Append(results_calls, [arg |-> out, result |-> "raise"])
    /\ Raise("HandlerError")
    /\ UNCHANGED <<selfVars, format, configfile, listVars, threadVars,
                   server, out, decode_attempts, error_calls, retval>>

\* Variant: the return statement is missing in the except clause, so run()
\* goes on to process_results after the error handler returned.
ProcessError_FallsThrough ==
    /\ pc = "process_error"
    /\ \E v \in HandlerReturns :
         error_calls' = Append(error_calls,
             [exc |-> "ValueError", data |-> out, result |-> v])
    /\ pc' = "process_results"
    /\ UNCHANGED <<selfVars, format, configfile, tempLog, listVars,
                   threadVars, server, out, decode_attempts, results_calls,
                   retval, exc>>

\* Variant: run() returns True after the error handler returned.
ProcessError_ReturnsTrue ==
    /\ pc = "process_error"
    /\ \E v \in HandlerReturns :
         error_calls' = Append(error_calls,
             [exc |-> "ValueError", data |-> out, result |-> v])
    /\ Return("True")
    /\ UNCHANGED <<selfVars, format, configfile, tempLog, listVars,
                   threadVars, server, out, decode_attempts, results_calls,
                   exc>>

\* return self.process_error(e, out), the handler returning v
ProcessError ==
    /\ pc = "process_error"
    /\ \E v \in HandlerReturns :
         /\ error_calls' = Append(error_calls,
                [exc |-> "ValueError", data |-> out, result |-> v])
         /\ Return(v)
    /\ UNCHANGED <<selfVars, format, configfile, tempLog, listVars,
                   threadVars, server, out, decode_attempts, results_calls,
                   exc>>

\* return self.process_error(e, out), the handler raising exc again, as the
\* default one does
ProcessErrorRaises ==
    /\ pc = "process_error"
    /\ error_calls' = Append(error_calls,
           [exc |-> "ValueError", data |-> out, result |-> "raise"])
    /\ Raise("ValueError")
    /\ UNCHANGED <<selfVars, format, configfile, listVars, threadVars,
                   server, out, decode_attempts, results_calls, retval>>

mainVars == <<selfVars, format, pc, configfile, listVars, resultVars, retval,
              exc>>

\* ------------------------------------------------------ DownloadLogThread
\* item = self.in_queue.get()
WorkerGet ==
    /\ BagIn(Idle, workers)
    /\ QueueCanGet(log_file_queue)
    /\ workers' = Move(Idle, [Idle EXCEPT !.pc = "read_log",
                                         !.item = QueueFront(log_file_queue)])
    /\ log_file_queue' = QueueAfterGet(log_file_queue)
    /\ UNCHANGED <<mainVars, tempLog, log_string_queue, writer, failed,
                   arrivals, writes, errors_logged>>

\* data = self.read_log(item)
WorkerReadLog ==
    \E w \in WorkerAt("read_log") :
        /\ CanReadLog(w.item.body)
        /\ workers' = Move(w, [w EXCEPT !.pc = "put",
                                        !.data = ReadLog(w.item.body)])
        /\ UNCHANGED <<mainVars, tempLog, log_file_queue, log_string_queue,
                       writer, failed, arrivals, writes, errors_logged>>

\* Variant: the except clause logs and leaves the loop, ending the thread.
WorkerSSLError_Ends ==
    \E w \in WorkerAt("read_log") :
        /\ workers' = Move(w, [w EXCEPT !.pc = "dead"])
        /\ errors_logged' = errors_logged + 1
        /\ failed' = failed \cup {w.item.idx}
        /\ UNCHANGED <<mainVars, tempLog, log_file_queue, log_string_queue,
                       writer, arrivals, writes>>

\* Variant: the except clause acknowledges the item before it continues.
WorkerSSLError_Acks ==
    \E w \in WorkerAt("read_log") :
        /\ workers' = Move(w, Idle)
        /\ errors_logged' = errors_logged + 1
        /\ failed' = failed \cup {w.item.idx}
        /\ log_file_queue' = QueueTaskDone(log_file_queue)
        /\ UNCHANGED <<mainVars, tempLog, log_string_queue, writer,
                       arrivals, writes>>

\* read_log raises ssl.SSLError: except ssl.SSLError: logger.error(...); continue
WorkerSSLError ==
    \E w \in WorkerAt("read_log") :
        /\ workers' = Move(w, Idle)
        /\ errors_logged' = errors_logged + 1
        /\ failed' = failed \cup {w.item.idx}
        /\ UNCHANGED <<mainVars, tempLog, log_file_queue, log_string_queue,
                       writer, arrivals, writes>>

\* read_log raises anything else (the transport, or gzip on a body that is
\* no gzip member): no except clause matches and the thread ends
WorkerDies ==
    \E w \in WorkerAt("read_log") :
        /\ workers' = Move(w, [w EXCEPT !.pc = "dead"])
        /\ failed' = failed \cup {w.item.idx}
        /\ UNCHANGED <<mainVars, tempLog, log_file_queue, log_string_queue,
                       writer, arrivals, writes, errors_logged>>

\* Variant: the worker acknowledges its item in place of putting the data.
WorkerPut_AckOnly ==
    \E w \in WorkerAt("put") :
        /\ log_file_queue' = QueueTaskDone(log_file_queue)
        /\ workers' = Move(w, Idle)
        /\ UNCHANGED <<mainVars, tempLog, log_string_queue, writer, failed,
                       arrivals, writes, errors_logged>>

\* Variant: the worker appends its data to the output file itself.
WorkerPut_WritesFile ==
    \E w \in WorkerAt("put") :
        /\ tempLog.state = "open"
        /\ tempLog' = FileWrite(tempLog, w.data)
        /\ log_string_queue' = QueuePut(log_string_queue, w.data)
        /\ arrivals' = Append(arrivals, w.data)
        /\ workers' = Move(w, [w EXCEPT !.pc = "task_done"])
        /\ UNCHANGED <<mainVars, log_file_queue, writer, failed, writes,
                       errors_logged>>

\* self.out_queue.put(data)
WorkerPut ==
    \E w \in WorkerAt("put") :
        /\ log_string_queue' = QueuePut(log_string_queue, w.data)
        /\ arrivals' = Append(arrivals, w.data)
        /\ workers' = Move(w, [w EXCEPT !.pc = "task_done"])
        /\ UNCHANGED <<mainVars, tempLog, log_file_queue, writer, failed,
                       writes, errors_logged>>

\* self.in_queue.task_done()
WorkerTaskDone ==
    \E w \in WorkerAt("task_done") :
        /\ log_file_queue' = QueueTaskDone(log_file_queue)
        /\ workers' = Move(w, Idle)
        /\ UNCHANGED <<mainVars, tempLog, log_string_queue, writer, failed,
                       arrivals, writes, errors_logged>>

\* ----------------------------------------------------------- ConcatThread
\* data = self.queue.get()
WriterGet ==
    /\ writer.pc = "get"
    /\ QueueCanGet(log_string_queue)
    /\ writer' = [pc |-> "write", data |-> QueueFront(log_string_queue)]
    /\ log_string_queue' = QueueAfterGet(log_string_queue)
    /\ UNCHANGED <<mainVars, tempLog, log_file_queue, workers, failed,
                   arrivals, writes, errors_logged>>

\* self.outfile.write(data)
WriterWrite ==
    /\ writer.pc = "write"
    /\ tempLog.state = "open"
    /\ tempLog' = FileWrite(tempLog, writer.data)
    /\ writes' = Append(writes, writer.data)
    /\ writer' = [writer EXCEPT !.pc = "task_done"]
    /\ UNCHANGED <<mainVars, log_file_queue, log_string_queue, workers,
                   failed, arrivals, errors_logged>>

\* self.outfile.write(data) on the closed file raises ValueError: the thread ends
WriterDies ==
    /\ writer.pc = "write"
    /\ tempLog.state = "closed"
    /\ writer' = [writer EXCEPT !.pc = "dead"]
    /\ UNCHANGED <<mainVars, tempLog, log_file_queue, log_string_queue,
                   workers, failed, arrivals, writes, errors_logged>>

\* Variant: the writer does not acknowledge the block it wrote.
WriterTaskDone_Forgotten ==
    /\ writer.pc = "task_done"
    /\ writer' = [pc |-> "get", data |-> NoData]
    /\ UNCHANGED <<mainVars, tempLog, log_file_queue, log_string_queue,
                   workers, failed, arrivals, writes, errors_logged>>

\* self.queue.task_done()
WriterTaskDone ==
    /\ writer.pc = "task_done"
    /\ log_string_queue' = QueueTaskDone(log_string_queue)
    /\ writer' = [pc |-> "get", data |-> NoData]
    /\ UNCHANGED <<mainVars, tempLog, log_file_queue, workers, failed,
                   arrivals, writes, errors_logged>>

MainStep ==
    \/ Run \/ CreateGoconfig \/ GetBucket \/ GetBucketFails \/ SpawnThreads
    \/ ListNext \/ ListSkip \/ ListDone \/ ListFails \/ JoinFiles \/ JoinStrings \/ Flush
    \/ Popen \/ PopenFails \/ Communicate \/ DispatchNone \/ JsonDecode
    \/ JsonDecodeFails \/ DispatchRaw \/ ProcessResults \/ ProcessResultsRaises
    \/ ProcessError \/ ProcessErrorRaises

WorkerStep ==
    \/ WorkerGet \/ WorkerReadLog \/ WorkerSSLError \/ WorkerDies \/ WorkerPut
    \/ WorkerTaskDone

WriterStep == WriterGet \/ WriterWrite \/ WriterDies \/ WriterTaskDone

Next == MainStep \/ WorkerStep \/ WriterStep

Spec == Init /\ [][Next]_vars

\* processor.run(fmt) once more on the same object, after a call that started
\* its threads and whose download_logs returned. The locals of the finished
\* call are dropped: its queues and threads are no longer referenced, and the
\* threads still blocked in get() stay behind. self.configfile is rebound by
\* _create_goconfig. (A further call while threads of a failed listing are
\* still at work is not followed.)
RunAgain ==
    /\ pc \in {"returned", "raised"}
    /\ ~list_failed
    /\ writer.pc # "none"
    /\ runs < MaxRuns
    /\ \E fmt \in Formats : format' = fmt
    /\ runs' = runs + 1
    /\ abandoned' = abandoned + CopiesIn(Idle, workers)
                              + (IF writer.pc = "get" THEN 1 ELSE 0)
    /\ pc' = "create_goconfig"
    /\ listing' = <<>>
    /\ skipped' = {}
    /\ list_failed' = FALSE
    /\ log_file_queue' = EmptyQueue
    /\ log_string_queue' = EmptyQueue
    /\ workers' = EmptyBag
    /\ writer' = [pc |-> "none", data |-> NoData]
    /\ failed' = {}
    /\ arrivals' = <<>>
    /\ writes' = <<>>
    /\ errors_logged' = 0
    /\ server' = NoServer
    /\ out' = NoneOut
    /\ decode_attempts' = 0
    /\ results_calls' = <<>>
    /\ error_calls' = <<>>
    /\ retval' = "unset"
    /\ exc' = "none"
    /\ UNCHANGED <<is_cloudfront, date_filter, input_prefix, configfile,
                   tempLog>>

RunsNext == Next \/ RunAgain

\* Several calls of run() in sequence.
RunsSpec == Init /\ [][RunsNext]_vars

\* ================================================================ claims
RECURSIVE Flatten(_)
Flatten(blocks) ==
    IF blocks = <<>> THEN <<>> ELSE Head(blocks) \o Flatten(Tail(blocks))

RECURSIVE SumLen(_)
SumLen(blocks) ==
    IF blocks = <<>> THEN 0 ELSE Len(Head(blocks)) + SumLen(Tail(blocks))

\* The (decompressed) contents of the listed objects, in listing order.
Contents == [i \in 1..Len(listing) |-> ReadLog(listing[i].body)]

\* The contents taken in the order p.
InOrder(p) == [i \in 1..Len(listing) |-> Contents[p[i]]]

\* run() is about to launch the analyzer on the combined log.
AtAnalyzer == pc = "popen"

\* run() is over, one way or the other.
Exited == pc \in {"returned", "raised"}

\* run() is over and the analyzer had been launched and waited for.
PastAnalyzer == Exited /\ server.launches > 0

\* C1: when run() is about to invoke the analyzer, the combined log file holds
\* the content of every listed object exactly once: it is the concatenation of
\* the N contents in some order, and its length is the sum of their lengths.
C1_EveryObjectOnce ==
    AtAnalyzer =>
        /\ \E p \in Permutations(1..Len(listing)) :
               tempLog.disk = Flatten(InOrder(p))
        /\ Len(tempLog.disk) = SumLen(Contents)
        /\ tempLog.buffer = <<>>

C1_Witness ==
    /\ AtAnalyzer
    /\ Len(listing) = 2
    /\ Len(Contents[1]) # Len(Contents[2])
    /\ Len(tempLog.disk) = 3

\* C2 as claimed: the combined log is the concatenation of the contents in
\* the order of the listing, whatever the scheduling of the workers.
C2_EnumerationOrder ==
    AtAnalyzer => tempLog.disk = Flatten(Contents)

\* C2, amended: the combined log is the concatenation of the fetched blocks in
\* the order in which the download workers put them on log_string_queue, one
\* block per listed object.
C2_ArrivalOrder ==
    AtAnalyzer =>
        /\ tempLog.disk = Flatten(arrivals)
        /\ Len(arrivals) = Len(listing)

C2_Witness ==
    /\ AtAnalyzer
    /\ Len(listing) = 2
    /\ arrivals = <<Contents[2], Contents[1]>>
    /\ tempLog.disk # Flatten(Contents)

\* C3 as claimed: a run in which a fetch failed ends by raising; it never
\* stops for good anywhere else (blocked in a join with no thread able to
\* take a step).
C3_FetchFailureAborts ==
    failed # {} => (pc = "raised" \/ ENABLED Next)

\* C4: once the fetch of a listed object has failed, the analyzer is never
\* launched in that run.
C4_NoAnalyzerAfterFailure ==
    failed # {} => server.launches = 0

C4_Witness ==
    /\ failed = {1}
    /\ Len(listing) = 2
    /\ pc = "join_files"
    /\ tempLog.buffer = ReadLog(listing[2].body)
    /\ tempLog.buffer # <<>>
    /\ ~ENABLED Next

\* C5: with an output format, the handlers are called at most once in all at
\* any time, and a run that got past the analyzer has called exactly one of
\* process_results and process_error, once.
C5_ExactlyOneHandler ==
    /\ Len(results_calls) + Len(error_calls) <= 1
    /\ (Truthy(format) /\ PastAnalyzer) =>
           Len(results_calls) + Len(error_calls) = 1

C5_Witness ==
    /\ PastAnalyzer
    /\ format = "json"
    /\ Len(error_calls) = 1
    /\ results_calls = <<>>
    /\ pc = "returned"

\* C6: with format json, a run past the analyzer called process_results with
\* the decoded value and not process_error when stdout is JSON, and
\* process_error with ValueError and the raw stdout and not process_results
\* when it is not; process_error is called in no other situation.
C6_JsonDispatch ==
    /\ (format = "json" /\ PastAnalyzer) =>
           IF IsJson(server.stdout)
           THEN /\ Len(results_calls) = 1
                /\ results_calls[1].arg = Decoded(DecValue(server.stdout))
                /\ error_calls = <<>>
           ELSE /\ Len(error_calls) = 1
                /\ error_calls[1].exc = "ValueError"
                /\ error_calls[1].data = Str(server.stdout)
                /\ results_calls = <<>>
    /\ error_calls # <<>> =>
           /\ format = "json"
           /\ decode_attempts = 1
           /\ ~IsJson(server.stdout)

C6_Witness ==
    /\ format = "json"
    /\ PastAnalyzer
    /\ server.stdout = <<"1", "0">>
    /\ results_calls[1].arg = Decoded(10)

\* C7: on a JSON decode failure the outcome of run() is that of process_error:
\* the value the handler returned is what run() returns, and when the handler
\* raises the exception again it leaves run().
C7_ErrorHandlerOutcome ==
    (Exited /\ error_calls # <<>>) =>
        IF error_calls[1].result = "raise"
        THEN pc = "raised" /\ exc = error_calls[1].exc /\ retval = "unset"
        ELSE pc = "returned" /\ retval = error_calls[1].result /\ exc = "none"

C7_Witness ==
    /\ pc = "returned"
    /\ error_calls # <<>>
    /\ error_calls[1].result = "sentinel"
    /\ retval = "sentinel"

\* C8: without an output format the analyzer is launched without -o and
\* without a pipe on its stdout, no handler is called, and a run past the
\* analyzer returned True.
C8_NoFormat ==
    ~Truthy(format) =>
        /\ server.launches > 0 =>
               /\ server.command =
                      <<"goaccess", "-f", "tempLog.name", "-p", "configfile.name">>
               /\ ~server.captured
        /\ results_calls = <<>>
        /\ error_calls = <<>>
        /\ decode_attempts = 0
        /\ PastAnalyzer => (pc = "returned" /\ retval = "True" /\ out = NoneOut)

C8_Witness ==
    /\ pc = "returned"
    /\ format = ""
    /\ server.launches = 1
    /\ server.stdout = <<"1">>
    /\ retval = "True"

\* C9: with format html or csv there is no decode attempt, process_results
\* gets the captured stdout unchanged, process_error is not called, and run()
\* returns True whatever process_results returned.
C9_RawFormats ==
    format \in {"html", "csv"} =>
        /\ decode_attempts = 0
        /\ error_calls = <<>>
        /\ \A i \in 1..Len(results_calls) :
               results_calls[i].arg = Str(server.stdout)
        /\ PastAnalyzer => Len(results_calls) = 1
        /\ (PastAnalyzer /\ results_calls[1].result # "raise") =>
               (pc = "returned" /\ retval = "True")

C9_Witness ==
    /\ format = "csv"
    /\ pc = "returned"
    /\ server.stdout = <<"1", "0">>
    /\ results_calls = <<[arg |-> Str(<<"1", "0">>), result |-> "None"]>>
    /\ retval = "True"

\* C10 as claimed: when run() is over, on every exit path, the profile file
\* and the combined-log file are both closed (and with that deleted).
C10_TempFilesReleased ==
    Exited => (configfile.state # "open" /\ tempLog.state # "open")

\* C11 as claimed: a run whose analyzer exited with a non-zero status ends by
\* raising: process_results is not called and run() does not return True.
C11_NonZeroExitIsError ==
    (PastAnalyzer /\ server.returncode # 0) =>
        /\ pc = "raised"
        /\ results_calls = <<>>
        /\ retval # "True"

\* Items a download worker has taken from log_file_queue.
Taken == Len(listing) - Len(log_file_queue.items)

\* C12 as claimed: at the moment the listing raises, the error leaves run()
\* and no download worker has taken an item from the fetch queue.
C12_NoFetchBeforeListFailure ==
    [][(~list_failed /\ list_failed') =>
          /\ pc' = "raised"
          /\ exc' = "S3ResponseError"
          /\ Taken = 0]_vars

\* C12, amended: once the listing has raised, run() is over with that error,
\* nothing more is enumerated or retried and the analyzer is not launched;
\* what the workers fetch are items enumerated before the failure, and some
\* of them may have been fetched and written before it.
C12_ListFailurePropagates ==
    list_failed =>
        /\ pc = "raised"
        /\ exc = "S3ResponseError"
        /\ retval = "unset"
        /\ server.launches = 0
        /\ Len(arrivals) + Cardinality(failed) <= Taken
        /\ Taken <= Len(listing)

C12_Witness ==
    /\ list_failed
    /\ pc = "raised"
    /\ Len(listing) = 2
    /\ Len(writes) = 1
    /\ Taken = 2

\* sub occurs somewhere in key.
Contains(key, sub) ==
    \E i \in 1..(Len(key) - Len(sub) + 1) :
        SubSeq(key, i, i + Len(sub) - 1) = sub

\* The date of the report rendered as YYYY-MM-DD.
DateString == Strftime(date_filter)

\* C13 as claimed: of the keys of the bucket, one that contains the prefix but
\* not the date is never selected, and every one that contains both the
\* prefix and the date is selected (and so is in the combined stream).
C13_PrefixAndDate ==
    /\ \A i \in 1..Len(listing) : Contains(listing[i].key, DateString)
    /\ \A k \in skipped : ~(Contains(k, LogPath) /\ Contains(k, DateString))

\* C13, amended: the selected objects are exactly those whose key begins with
\* the prefix immediately followed by the date rendered as YYYY-MM-DD; no
\* other key of the bucket is selected, and when run() reaches the analyzer
\* each selected object has been written to the combined stream exactly once.
C13_PrefixThenDate ==
    /\ \A i \in 1..Len(listing) :
           StartsWith(listing[i].key, LogPath \o DateString)
    /\ \A k \in skipped : ~StartsWith(k, LogPath \o DateString)
    /\ AtAnalyzer =>
           \E p \in Permutations(1..Len(listing)) : writes = InOrder(p)

C13_Witness ==
    /\ AtAnalyzer
    /\ Len(listing) = 1
    /\ Len(writes) = 1
    /\ \E k \in skipped : Contains(k, LogPath) /\ Contains(k, DateString)

\* The threads are scheduled fairly and every call they make comes back: the
\* main thread, the pool of download workers and the writer each take a step
\* when they can.
FairSpec ==
    Spec /\ WF_vars(MainStep) /\ WF_vars(WorkerStep) /\ WF_vars(WriterStep)

\* download_logs has returned to run().
DownloadReturned == pc = "flush"

\* C14: once the threads are started, download_logs returns unless the listing
\* or a fetch fails; and when it has returned, both queues are empty and have
\* no unfinished task.
C14_DownloadLogsReturns ==
    /\ (pc = "spawn") ~> (DownloadReturned \/ list_failed \/ failed # {})
    /\ [](DownloadReturned =>
            /\ log_file_queue = EmptyQueue
            /\ log_string_queue = EmptyQueue)

C14_Witness ==
    /\ DownloadReturned
    /\ Len(listing) = 2
    /\ Len(writes) = 2
    /\ failed = {}

\* Everything written to the combined log so far, flushed or not.
Written == tempLog.disk \o tempLog.buffer

\* Blocks the writer has taken from log_string_queue and not yet written.
InWriter == IF writer.pc \in {"write", "dead"} THEN 1 ELSE 0

\* Blocks that have left log_string_queue and the writer's hands.
BlocksWritten == Len(arrivals) - Len(log_string_queue.items) - InWriter

\* C15: the combined log changes only by the ConcatThread appending the one
\* whole block it holds; at any time the file is the concatenation of the
\* first blocks put on log_string_queue, in the order they were put, so the
\* bytes of two objects are never interleaved.
C15_SingleWriterFifo ==
    /\ [](tempLog.state = "open" =>
            /\ Written = Flatten(SubSeq(arrivals, 1, BlocksWritten))
            /\ writes = SubSeq(arrivals, 1, BlocksWritten))
    /\ [][(tempLog.state = "open" /\ tempLog'.state = "open"
             /\ Written' # Written) =>
            /\ writer.pc = "write"
            /\ writer'.pc = "task_done"
            /\ workers' = workers
            /\ Written' = Written \o writer.data]_vars

C15_Witness ==
    /\ tempLog.state = "open"
    /\ Len(arrivals) = 2
    /\ arrivals[1] # arrivals[2]
    /\ arrivals = <<ReadLog(listing[2].body), ReadLog(listing[1].body)>>
    /\ Written = arrivals[1] \o arrivals[2]
    /\ Len(Written) = 3

\* Every thread of the pool and the writer are blocked in get().
AllBlockedInGet ==
    /\ workers = [w \in {Idle} |-> _num_threads]
    /\ writer = [pc |-> "get", data |-> NoData]

\* C16: the analyzer is launched with the enumeration over, both queues
\* drained, every fetched block written and nothing left in the buffer of the
\* file; what it reads is all that was written, and from the launch on nothing
\* is written to the combined log.
C16_AnalyzerAfterFlush ==
    /\ [][server'.launches # server.launches =>
            /\ pc = "popen"
            /\ ~list_failed
            /\ log_file_queue = EmptyQueue
            /\ log_string_queue = EmptyQueue
            /\ AllBlockedInGet
            /\ Len(writes) = Len(listing)
            /\ tempLog.state = "open"
            /\ tempLog.buffer = <<>>
            /\ tempLog.disk = Flatten(writes)
            /\ server'.input = Flatten(writes)]_vars
    /\ [][server.launches > 0 =>
            /\ writes' = writes
            /\ (tempLog'.state = "open" => tempLog' = tempLog)]_vars

C16_Witness ==
    /\ pc = "communicate"
    /\ Len(listing) = 2
    /\ Len(server.input) = 3
    /\ server.input = tempLog.disk

\* The listed objects whose fetch has not failed.
NonFailed == {i \in 1..Len(listing) : i \notin failed}

\* Every listed object has either failed or been written, and the combined
\* log holds the whole content of each object that has not failed, once.
OthersWritten ==
    /\ Len(writes) = Cardinality(NonFailed)
    /\ Written = Flatten(writes)
    /\ \E p \in [1..Len(writes) -> NonFailed] :
           /\ \A i, j \in 1..Len(writes) : p[i] = p[j] => i = j
           /\ \A i \in 1..Len(writes) : writes[i] = Contents[p[i]]

\* C17: an ssl.SSLError in a fetch is logged and the worker goes back to
\* get() with nothing else touched; and in a run whose listing completed,
\* every object whose own fetch does not fail is still fetched and its whole
\* content written to the combined log.
C17_SSLErrorLoggedAndSkipped ==
    /\ [][errors_logged' # errors_logged =>
            /\ errors_logged' = errors_logged + 1
            /\ CopiesIn(Idle, workers') = CopiesIn(Idle, workers) + 1
            /\ BagCardinality(workers') = _num_threads
            /\ WorkerAt("dead")' = WorkerAt("dead")
            /\ UNCHANGED <<tempLog, log_file_queue, log_string_queue, writer,
                           writes, arrivals>>]_vars
    /\ (pc = "join_files" /\ errors_logged > 0) ~> OthersWritten

C17_Witness ==
    /\ pc = "join_files"
    /\ Len(listing) = 2
    /\ errors_logged = 1
    /\ failed = {1}
    /\ OthersWritten
    /\ Written = Contents[2]
    /\ Len(Written) = 2

\* download_logs of the current call of run() has returned.
DownloadDone ==
    \/ pc \in {"flush", "popen", "communicate", "dispatch", "process_results",
               "process_error"}
    \/ Exited /\ ~list_failed /\ writer.pc # "none"

\* Threads alive and blocked in get() on a queue that is empty.
ThreadsBlocked ==
    abandoned + CopiesIn(Idle, workers) + (IF writer.pc = "get" THEN 1 ELSE 0)

FileAcks == Len(listing) - log_file_queue.unfinished_tasks

StringAcks == Len(arrivals) - log_string_queue.unfinished_tasks

\* C19: the acknowledgements on the fetch queue never exceed the blocks put on
\* the bytes queue, and the acknowledgements on the bytes queue never exceed the
\* blocks written to the file. So after log_file_queue.join() every listed
\* object has its block counted by log_string_queue and no worker still holds
\* one, and after log_string_queue.join() every block has been written.
C19_AcksFollowWork ==
    /\ FileAcks <= Len(arrivals)
    /\ StringAcks <= Len(writes)
    /\ FileAcks >= 0
    /\ StringAcks >= 0
    /\ pc = "join_strings" =>
          /\ Len(arrivals) = Len(listing)
          /\ WorkerAt("put") = {}
          /\ WorkerAt("read_log") = {}
    /\ pc = "flush" =>
          /\ Len(writes) = Len(arrivals)
          /\ writer.pc = "get"

\* One block is written but not yet acknowledged while a second block is put
\* but its item not yet acknowledged.
C19_Witness ==
    /\ Len(arrivals) = 2
    /\ FileAcks = 1
    /\ Len(writes) = 1
    /\ StringAcks = 0
    /\ writer.pc = "task_done"
    /\ WorkerAt("task_done") # {}

\* C20: the writer thread never calls write on the combined-log file once run()
\* has left the with block that owns it, on any way out of download_logs. (The
\* writer is dead only after such a call: outfile.write on the closed file.)
C20_NoWriteAfterClose ==
    /\ writer.pc # "dead"
    /\ tempLog.state = "closed" => writer.pc # "write"

====
